---- MODULE Spec2Model ----
(***************************************************************************)
(* Lead_Automation: the scheduler task created by lifespan, the cycle it   *)
(* repeats (run_automation_cycle), the aiohttp session of a LeadAutomation *)
(* instance, and the lifespan shutdown block that cancels the task.        *)
(*                                                                         *)
(* The task is an asyncio task: it runs without interruption between two   *)
(* suspension points, and a cancel() takes effect as a CancelledError      *)
(* raised at the await the task is suspended at.  The suspension points    *)
(* are the awaits of scrape_crunchbase, enrich_lead, store_lead,           *)
(* session.close() and asyncio.sleep.                                      *)
(*                                                                         *)
(* scrape_crunchbase, enrich_lead, store_lead and setup_database are       *)
(* called by the source but defined nowhere in it; they are modelled from  *)
(* the contracts of the specification (sections 4.2, 4.3, 4.4, 6).         *)
(***************************************************************************)
EXTENDS Integers, Sequences, FiniteSets, TLC

\* Number of cycles the scheduler is followed through.
MaxCycles == 2

\* Number of lead records that exist at the upstream data source.
MaxLead == 3

\* Largest value of the query parameters limit and offset of get_leads.
MaxPage == 2

\* Number of init_session / close_session calls followed on one instance.
MaxOps == 6

\* The fixed ordered category list of run_automation_cycle.
categories == <<"software", "ecommerce", "healthcare", "fintech", "ai", "cybersecurity">>

\* The upstream records: leads 1 and 2 are software companies, every further
\* lead belongs to the next categories in turn.
LeadPool == 1..MaxLead

CategoryOf(l) == IF l <= 2 THEN 1 ELSE ((l - 3) % (Len(categories) - 1)) + 2

\* The values an environment variable read by os.getenv can have.
EnvValues == {"None", "", "key"}

VARIABLES
    OPENAI_API_KEY,     \* Config.OPENAI_API_KEY
    CRUNCHBASE_API_KEY, \* Config.CRUNCHBASE_API_KEY
    lifespan,           \* position of the lifespan context manager
    pc,                 \* await the scheduler task is suspended at
    taskResult,         \* outcome of automation_task
    cancelRequested,    \* automation_task.cancel() was called, not yet delivered
    timerFired,         \* the timer of asyncio.sleep has expired
    cycles,             \* invocations of run_automation_cycle so far
    running,            \* invocations of run_automation_cycle in progress
    session,            \* automation.session: 0 is None, n the n-th ClientSession
    closed,             \* the ClientSession objects that are closed
    stats,              \* automation.stats of the cycle's LeadAutomation
    category,           \* index of the loop variable category
    leads,              \* the sequence returned by scrape_crunchbase
    lead,               \* index of the loop variable lead in leads
    enriched_data,      \* the value returned by enrich_lead
    pending,            \* exception in flight while the finally block runs
    exit,               \* how the last invocation of the cycle left
    cause,              \* the call whose failure ended the last invocation
    leadRows,           \* table leads: ids of stored leads
    enrichmentRows,     \* table enrichment_data: lead_id of stored results
    calls,              \* calls made by the current cycle and their outcomes
    automation,         \* the LeadAutomation instance the cycle's `automation` names
    validation,         \* the last call of Config.validate_config and its result
    schema,             \* the tables of leads.db exist (setup_database has run)
    created_at,         \* column leads.created_at, by lead id
    response,           \* the last response of a monitoring endpoint: its status,
                        \* for get_stats the counters, the instance they belong to
                        \* and the instance of the cycle at that moment
    ops,                \* init_session / close_session calls made on one instance
    page                \* a page returned by get_leads, with its parameters

vars == <<OPENAI_API_KEY, CRUNCHBASE_API_KEY, lifespan, pc, taskResult,
          cancelRequested, timerFired, cycles, running, session, closed, stats,
          category, leads, lead, enriched_data, pending, exit, cause,
          leadRows, enrichmentRows, calls, automation, validation, schema,
          created_at, response, ops, page>>

config == <<OPENAI_API_KEY, CRUNCHBASE_API_KEY>>
loopVars == <<category, leads, lead, enriched_data>>
database == <<leadRows, enrichmentRows>>

----------------------------------------------------------------------------
\* A validation that stops at the first missing variable (elif for the
\* second if).
validate_config_first(openai, crunchbase) ==
    IF openai \in {"None", ""} THEN <<"OPENAI_API_KEY">>
    ELSE IF crunchbase \in {"None", ""} THEN <<"CRUNCHBASE_API_KEY">>
    ELSE <<>>

\* Config.validate_config: the names of the missing variables, in order;
\* `not x` holds of None and of the empty string.  A non-empty result is the
\* EnvironmentError that names them.
validate_config(openai, crunchbase) ==
    (IF openai \in {"None", ""} THEN <<"OPENAI_API_KEY">> ELSE <<>>)
        \o (IF crunchbase \in {"None", ""} THEN <<"CRUNCHBASE_API_KEY">> ELSE <<>>)

\* LeadAutomation.__init__: the counters of a new instance.
NewStats == [leads_generated |-> 0, leads_enriched |-> 0, errors |-> 0]

\* The call record of a cycle that has made no call yet; scrapeFailed is the
\* index of the category collected last if that collection failed, else 0.
NoCalls == [scraped |-> {}, scrapeFailed |-> 0, returned |-> {}, enrichOk |-> {},
            enrichFailed |-> {}, stored |-> {}, statsAtStart |-> NewStats,
            enrichmentAtStart |-> {}]

\* No LeadAutomation instance; the instance constructed by the n-th cycle;
\* an instance constructed by the handler get_stats.
NoInstance == [by |-> "none", n |-> 0]
CycleInstance(n) == [by |-> "run_automation_cycle", n |-> n]
HandlerInstance == [by |-> "get_stats", n |-> 0]

\* No page has been read.
NoPage == [limit |-> 0, offset |-> 0, order |-> <<>>, rows |-> <<>>, read |-> FALSE]

\* No monitoring request has been answered yet.
NoResponse == [endpoint |-> "none", status |-> 0, instance |-> NoInstance,
               runner |-> NoInstance, stats |-> NewStats]

\* The ascending sequence of the elements of a set of leads.
RECURSIVE SeqOf(_)
SeqOf(S) == IF S = {} THEN <<>>
            ELSE LET m == CHOOSE x \in S : \A y \in S : x <= y
                 IN <<m>> \o SeqOf(S \ {m})

\* Source Collector, collect(category): a finite, possibly empty, ordered
\* sequence of the category's leads without duplicates; a transport error
\* or a malformed response gives the empty sequence.
scrape_crunchbase(c) ==
    {SeqOf(S) : S \in SUBSET {l \in LeadPool : CategoryOf(l) = c}}

\* Enricher, enrich(lead): an EnrichmentResult, or the failure signal of a
\* transport, quota or timeout failure, which in Python is a raised exception.
enrich_lead(l) == {"result", "raise"}

\* Persistence Store, store(lead, enrichment): the Lead row is written if
\* absent and the EnrichmentResult row when the enrichment is not null, the
\* pair atomically; or a persistence error is raised and nothing is written.
\* rows is <<table leads, table enrichment_data>>.
store_lead(rows, l, e) ==
    {<<"return", <<rows[1] \cup {l},
                   IF e = "result" THEN rows[2] \cup {l} ELSE rows[2]>>>>,
     <<"raise", rows>>}

Init ==
    /\ OPENAI_API_KEY \in EnvValues
    /\ CRUNCHBASE_API_KEY \in EnvValues
    /\ lifespan = "serving"
    /\ pc = "created"
    /\ taskResult = "pending"
    /\ cancelRequested = FALSE
    /\ timerFired = FALSE
    /\ cycles = 0
    /\ running = 0
    /\ session = 0
    /\ closed = {}
    /\ stats = NewStats
    /\ category = 1
    /\ leads = <<>>
    /\ lead = 1
    /\ enriched_data = "unset"
    /\ pending = "none"
    /\ exit = "none"
    /\ cause = "none"
    /\ leadRows = {}
    /\ enrichmentRows = {}
    /\ calls = NoCalls
    /\ automation = NoInstance
    /\ validation = [called |-> FALSE, missing_vars |-> <<>>]
    /\ schema = FALSE
    /\ created_at = <<>>
    /\ response = NoResponse
    /\ ops = <<>>
    /\ page = NoPage

----------------------------------------------------------------------------
\* An init_session without the `if not self.session` test.
init_session_always(s, new) == new

\* LeadAutomation.init_session: a new ClientSession only when there is none.
init_session(s, new) == IF s = 0 THEN new ELSE s

\* A scheduler that starts the next cycle without awaiting the previous one
\* or the sleep (the cycle spawned as a task of its own).
SchedulerResumesUnawaited ==
    /\ ~cancelRequested
    /\ pc # "done"
    /\ cycles < MaxCycles

\* run_scheduled_automation, `while True`: the task enters the next cycle when
\* it runs for the first time or when the sleep that follows the previous
\* cycle has returned.
SchedulerResumes ==
    /\ ~cancelRequested
    /\ pc = "created" \/ (pc = "sleep" /\ timerFired)
    /\ cycles < MaxCycles

\* The for loop over categories, after the leads of one category are done:
\* the next category is collected, or the try block ends and the finally
\* block awaits close_session with no exception in flight.
NextCategory ==
    IF category < Len(categories)
    THEN /\ category' = category + 1
         /\ pc' = "scrape"
    ELSE /\ category' = category
         /\ pc' = "close"

\* The task ends with the exception that left the coroutine.
TaskEnds(outcome) ==
    /\ pc' = "done"
    /\ taskResult' = outcome

\* run_automation_cycle, line 87: LeadAutomation() raises the EnvironmentError
\* of validate_config; the exception leaves the cycle and ends the task.
cycle_config_error ==
    /\ SchedulerResumes
    /\ validate_config(OPENAI_API_KEY, CRUNCHBASE_API_KEY) # <<>>
    /\ cycles' = cycles + 1
    /\ exit' = "error"
    /\ cause' = "config"
    /\ calls' = NoCalls
    /\ validation' = [called |-> TRUE,
                      missing_vars |-> validate_config(OPENAI_API_KEY, CRUNCHBASE_API_KEY)]
    /\ TaskEnds("error")
    /\ UNCHANGED <<config, lifespan, cancelRequested, timerFired, running, session,
                   closed, stats, loopVars, pending, database>>
    /\ UNCHANGED <<automation, schema, created_at, response, ops, page>>

\* A cycle that catches the failure of init_session and goes on to collect
\* without a session.
cycle_session_error_swallowed ==
    /\ SchedulerResumes
    /\ validate_config(OPENAI_API_KEY, CRUNCHBASE_API_KEY) = <<>>
    /\ cycles' = cycles + 1
    /\ stats' = NewStats
    /\ session' = 0
    /\ exit' = "none"
    /\ cause' = "session"
    /\ calls' = [NoCalls EXCEPT !.enrichmentAtStart = enrichmentRows]
    /\ automation' = CycleInstance(cycles + 1)
    /\ validation' = [called |-> TRUE,
                      missing_vars |-> validate_config(OPENAI_API_KEY, CRUNCHBASE_API_KEY)]
    /\ schema' = TRUE
    /\ pc' = "scrape"
    /\ UNCHANGED <<config, lifespan, taskResult, cancelRequested, timerFired, running,
                   closed, loopVars, pending, database>>
    /\ UNCHANGED <<created_at, response, ops, page>>

\* run_automation_cycle, line 88: opening the ClientSession fails; the
\* exception is raised outside the try block and ends the task.
cycle_session_error ==
    /\ SchedulerResumes
    /\ validate_config(OPENAI_API_KEY, CRUNCHBASE_API_KEY) = <<>>
    /\ cycles' = cycles + 1
    /\ stats' = NewStats
    /\ session' = 0
    /\ exit' = "error"
    /\ cause' = "session"
    /\ calls' = [NoCalls EXCEPT !.enrichmentAtStart = enrichmentRows]
    /\ automation' = CycleInstance(cycles + 1)
    /\ validation' = [called |-> TRUE,
                      missing_vars |-> validate_config(OPENAI_API_KEY, CRUNCHBASE_API_KEY)]
    /\ schema' = TRUE
    /\ TaskEnds("error")
    /\ UNCHANGED <<config, lifespan, cancelRequested, timerFired, running, closed,
                   loopVars, pending, database>>
    /\ UNCHANGED <<created_at, response, ops, page>>

\* run_automation_cycle, lines 87-93: a new LeadAutomation (zeroed counters,
\* no session), init_session, and the first scrape_crunchbase is awaited.
cycle_begins ==
    /\ SchedulerResumes
    /\ validate_config(OPENAI_API_KEY, CRUNCHBASE_API_KEY) = <<>>
    /\ cycles' = cycles + 1
    /\ running' = running + 1
    /\ stats' = NewStats
    /\ session' = init_session(0, cycles + 1)
    /\ category' = 1
    /\ leads' = <<>>
    /\ lead' = 1
    /\ enriched_data' = "unset"
    /\ pending' = "none"
    /\ exit' = "none"
    /\ cause' = "none"
    /\ calls' = [NoCalls EXCEPT !.enrichmentAtStart = enrichmentRows]
    /\ automation' = CycleInstance(cycles + 1)
    /\ validation' = [called |-> TRUE,
                      missing_vars |-> validate_config(OPENAI_API_KEY, CRUNCHBASE_API_KEY)]
    /\ schema' = TRUE
    /\ pc' = "scrape"
    /\ UNCHANGED <<config, lifespan, taskResult, cancelRequested, timerFired, closed,
                   database>>
    /\ UNCHANGED <<created_at, response, ops, page>>

\* A loop over the categories that is left (break) when a collection fails.
scrape_crunchbase_breaks ==
    /\ pc = "scrape"
    /\ ~cancelRequested
    /\ \E ls \in scrape_crunchbase(category), failed \in BOOLEAN :
        /\ failed => ls = <<>>
        /\ leads' = ls
        /\ calls' = [calls EXCEPT !.scraped = @ \cup {category},
                                  !.scrapeFailed = IF failed THEN category ELSE 0,
                                  !.returned = @ \cup {ls[i] : i \in DOMAIN ls}]
        /\ IF Len(ls) > 0
           THEN /\ lead' = 1
                /\ pc' = "enrich"
                /\ category' = category
           ELSE /\ lead' = lead
                /\ IF failed
                   THEN category' = category /\ pc' = "close"
                   ELSE NextCategory
    /\ UNCHANGED <<config, lifespan, taskResult, cancelRequested, timerFired, cycles,
                   running, session, closed, stats, enriched_data, pending, exit,
                   cause, database>>
    /\ UNCHANGED <<automation, validation, schema, created_at, response, ops, page>>

\* Line 93 returns: the leads of the category; with none, line 99 and the
\* next category.  A collection that failed inside scrape_crunchbase returns
\* the empty sequence like a category without leads.
scrape_crunchbase_returns ==
    /\ pc = "scrape"
    /\ ~cancelRequested
    /\ \E ls \in scrape_crunchbase(category), failed \in BOOLEAN :
        /\ failed => ls = <<>>
        /\ leads' = ls
        /\ calls' = [calls EXCEPT !.scraped = @ \cup {category},
                                  !.scrapeFailed = IF failed THEN category ELSE 0,
                                  !.returned = @ \cup {ls[i] : i \in DOMAIN ls}]
        /\ IF Len(ls) > 0
           THEN /\ lead' = 1
                /\ pc' = "enrich"
                /\ category' = category
           ELSE /\ lead' = lead
                /\ NextCategory
    /\ UNCHANGED <<config, lifespan, taskResult, cancelRequested, timerFired, cycles,
                   running, session, closed, stats, enriched_data, pending, exit,
                   cause, database>>
    /\ UNCHANGED <<automation, validation, schema, created_at, response, ops, page>>

\* Line 96 returns an EnrichmentResult; line 97 awaits store_lead.
enrich_lead_returns ==
    /\ pc = "enrich"
    /\ ~cancelRequested
    /\ "result" \in enrich_lead(leads[lead])
    /\ enriched_data' = "result"
    /\ calls' = [calls EXCEPT !.enrichOk = @ \cup {leads[lead]}]
    /\ pc' = "store"
    /\ UNCHANGED <<config, lifespan, taskResult, cancelRequested, timerFired, cycles,
                   running, session, closed, stats, category, leads, lead, pending,
                   exit, cause, database>>
    /\ UNCHANGED <<automation, validation, schema, created_at, response, ops, page>>

\* Line 96 raises (transport, quota or timeout failure of the Enricher): no
\* except clause encloses the call, so the exception leaves both loops and
\* the finally block awaits close_session.
enrich_lead_raises ==
    /\ pc = "enrich"
    /\ ~cancelRequested
    /\ "raise" \in enrich_lead(leads[lead])
    /\ calls' = [calls EXCEPT !.enrichFailed = @ \cup {leads[lead]}]
    /\ pending' = "error"
    /\ cause' = "enrich"
    /\ pc' = "close"
    /\ UNCHANGED <<config, lifespan, taskResult, cancelRequested, timerFired, cycles,
                   running, session, closed, stats, loopVars, exit, database>>
    /\ UNCHANGED <<automation, validation, schema, created_at, response, ops, page>>

\* Line 97 returns: the next lead, or line 99 and the next category.
store_lead_returns ==
    /\ pc = "store"
    /\ ~cancelRequested
    /\ \E r \in store_lead(database, leads[lead], enriched_data) :
        /\ r[1] = "return"
        /\ leadRows' = r[2][1]
        /\ enrichmentRows' = r[2][2]
    /\ created_at' = IF leads[lead] \in leadRows THEN created_at
                     ELSE created_at @@ (leads[lead] :> cycles)
    /\ calls' = [calls EXCEPT !.stored = @ \cup {<<leads[lead], enriched_data>>}]
    /\ IF lead < Len(leads)
       THEN /\ lead' = lead + 1
            /\ pc' = "enrich"
            /\ category' = category
       ELSE /\ lead' = lead
            /\ NextCategory
    /\ UNCHANGED <<config, lifespan, taskResult, cancelRequested, timerFired, cycles,
                   running, session, closed, stats, leads, enriched_data, pending,
                   exit, cause>>
    /\ UNCHANGED <<automation, validation, schema, response, ops, page>>

\* Line 97 raises (persistence error): nothing is written, the exception
\* leaves both loops and the finally block awaits close_session.
store_lead_raises ==
    /\ pc = "store"
    /\ ~cancelRequested
    /\ \E r \in store_lead(database, leads[lead], enriched_data) :
        /\ r[1] = "raise"
        /\ leadRows' = r[2][1]
        /\ enrichmentRows' = r[2][2]
    /\ pending' = "error"
    /\ cause' = "store"
    /\ pc' = "close"
    /\ UNCHANGED <<config, lifespan, taskResult, cancelRequested, timerFired, cycles,
                   running, session, closed, stats, loopVars, exit, calls>>
    /\ UNCHANGED <<automation, validation, schema, created_at, response, ops, page>>

\* close_session, lines 80-82, when session.close() returns: the session is
\* closed and the reference cleared.  The cycle then returns to the scheduler,
\* which awaits the sleep, or re-raises the exception in flight, which ends
\* the task.
close_session_returns ==
    /\ pc = "close"
    /\ ~cancelRequested
    /\ session # 0
    /\ closed' = closed \cup {session}
    /\ session' = 0
    /\ running' = running - 1
    /\ exit' = IF pending = "none" THEN "normal" ELSE pending
    /\ IF pending = "none"
       THEN /\ pc' = "sleep"
            /\ timerFired' = FALSE
            /\ taskResult' = taskResult
       ELSE /\ TaskEnds(pending)
            /\ timerFired' = timerFired
    /\ pending' = "none"
    /\ UNCHANGED <<config, lifespan, cancelRequested, cycles, stats, loopVars, cause,
                   database, calls>>
    /\ UNCHANGED <<automation, validation, schema, created_at, response, ops, page>>

\* CancelledError raised at the await of scrape_crunchbase, enrich_lead or
\* store_lead: the call is abandoned, the finally block awaits close_session.
cancel_in_call ==
    /\ pc \in {"scrape", "enrich", "store"}
    /\ cancelRequested
    /\ cancelRequested' = FALSE
    /\ pending' = "cancelled"
    /\ cause' = "cancel"
    /\ pc' = "close"
    /\ UNCHANGED <<config, lifespan, taskResult, timerFired, cycles, running, session,
                   closed, stats, loopVars, exit, database, calls>>
    /\ UNCHANGED <<automation, validation, schema, created_at, response, ops, page>>

\* CancelledError raised at `await self.session.close()`, line 81: line 82 is
\* not reached, the reference stays, and the ClientSession is closed or not
\* depending on how far close() got.  The CancelledError leaves the finally
\* block and ends the task.
cancel_in_close_session ==
    /\ pc = "close"
    /\ cancelRequested
    /\ session # 0
    /\ cancelRequested' = FALSE
    /\ closed' \in {closed, closed \cup {session}}
    /\ running' = running - 1
    /\ exit' = "cancelled"
    /\ cause' = "cancel"
    /\ pending' = "none"
    /\ TaskEnds("cancelled")
    /\ UNCHANGED <<config, lifespan, timerFired, cycles, session, stats, loopVars,
                   database, calls>>
    /\ UNCHANGED <<automation, validation, schema, created_at, response, ops, page>>

\* The event loop's timer of asyncio.sleep(4 * 60 * 60) expires.
sleep_timer ==
    /\ pc = "sleep"
    /\ ~timerFired
    /\ timerFired' = TRUE
    /\ UNCHANGED <<config, lifespan, pc, taskResult, cancelRequested, cycles, running,
                   session, closed, stats, loopVars, pending, exit, cause, database,
                   calls>>
    /\ UNCHANGED <<automation, validation, schema, created_at, response, ops, page>>

\* A scheduler loop that catches the CancelledError of the sleep and goes on
\* with the loop.
cancel_in_sleep_swallowed ==
    /\ pc = "sleep"
    /\ cancelRequested
    /\ cancelRequested' = FALSE
    /\ timerFired' = TRUE
    /\ UNCHANGED <<config, lifespan, pc, taskResult, cycles, running, session, closed,
                   stats, loopVars, pending, exit, cause, database, calls>>
    /\ UNCHANGED <<automation, validation, schema, created_at, response, ops, page>>

\* CancelledError raised at the await of asyncio.sleep, line 112, whether or
\* not the timer has expired: the task ends.
cancel_in_sleep ==
    /\ pc = "sleep"
    /\ cancelRequested
    /\ cancelRequested' = FALSE
    /\ TaskEnds("cancelled")
    /\ UNCHANGED <<config, lifespan, timerFired, cycles, running, session, closed,
                   stats, loopVars, pending, exit, cause, database, calls>>
    /\ UNCHANGED <<automation, validation, schema, created_at, response, ops, page>>

\* The task is cancelled before its first step: its body never runs.
cancel_before_start ==
    /\ pc = "created"
    /\ cancelRequested
    /\ cancelRequested' = FALSE
    /\ TaskEnds("cancelled")
    /\ UNCHANGED <<config, lifespan, timerFired, cycles, running, session, closed,
                   stats, loopVars, pending, exit, cause, database, calls>>
    /\ UNCHANGED <<automation, validation, schema, created_at, response, ops, page>>

\* lifespan, lines 117-122: automation_task.cancel(), which has no effect on
\* a task that is done, then the task is awaited.
lifespan_shutdown ==
    /\ lifespan = "serving"
    /\ lifespan' = "awaiting"
    /\ cancelRequested' = (pc # "done")
    /\ UNCHANGED <<config, pc, taskResult, timerFired, cycles, running, session,
                   closed, stats, loopVars, pending, exit, cause, database, calls>>
    /\ UNCHANGED <<automation, validation, schema, created_at, response, ops, page>>

\* lifespan, lines 122-124: the awaited task raises CancelledError, which is
\* caught; the shutdown block finishes.
lifespan_shutdown_completes ==
    /\ lifespan = "awaiting"
    /\ taskResult = "cancelled"
    /\ lifespan' = "complete"
    /\ UNCHANGED <<config, pc, taskResult, cancelRequested, timerFired, cycles,
                   running, session, closed, stats, loopVars, pending, exit, cause,
                   database, calls>>
    /\ UNCHANGED <<automation, validation, schema, created_at, response, ops, page>>

\* lifespan, line 122: the awaited task raises the exception that ended it;
\* it is no CancelledError and leaves the shutdown block.
lifespan_shutdown_raises ==
    /\ lifespan = "awaiting"
    /\ taskResult = "error"
    /\ lifespan' = "raised"
    /\ UNCHANGED <<config, pc, taskResult, cancelRequested, timerFired, cycles,
                   running, session, closed, stats, loopVars, pending, exit, cause,
                   database, calls>>
    /\ UNCHANGED <<automation, validation, schema, created_at, response, ops, page>>

----------------------------------------------------------------------------
\* The values of the query parameters limit and offset (any int is accepted).
PageValues == -1..MaxPage

\* The frame of every step of the scheduler task and of lifespan, as seen
\* from a monitoring handler.
schedulerVars == <<lifespan, pc, taskResult, cancelRequested, timerFired, cycles,
                   running, session, closed, stats, loopVars, pending, exit, cause,
                   calls, automation>>

\* ORDER BY l.created_at DESC: the orders of the stored leads in which
\* created_at never increases; rows with equal created_at come in an order
\* SQL leaves open.
LeadOrders ==
    {q \in [1..Cardinality(leadRows) -> leadRows] :
        /\ \A i, j \in DOMAIN q : i # j => q[i] # q[j]
        /\ \A i, j \in DOMAIN q : i < j => created_at[q[i]] >= created_at[q[j]]}

\* LIMIT ? OFFSET ? of SQLite: a negative offset counts as 0, a negative
\* limit as no limit.
LimitOffset(q, limit, offset) ==
    LET skip == IF offset < 0 THEN 0 ELSE offset
        rest == IF skip >= Len(q) THEN 0 ELSE Len(q) - skip
        n    == IF limit < 0 \/ limit > rest THEN rest ELSE limit
    IN [i \in 1..n |-> q[skip + i]]

\* LEFT JOIN enrichment_data e ON l.id = e.lead_id: every lead row, with
\* the columns of its enrichment or nulls.
LeftJoin(q) ==
    [i \in DOMAIN q |->
        [id |-> q[i], created_at |-> created_at[q[i]],
         seo_score |-> IF q[i] \in enrichmentRows THEN "result" ELSE "null"]]

\* A get_stats that works on the instance of the cycle and releases its
\* session after reading the counters.
get_stats_closing_session ==
    /\ lifespan = "serving"
    /\ validate_config(OPENAI_API_KEY, CRUNCHBASE_API_KEY) = <<>>
    /\ validation' = [called |-> TRUE,
                      missing_vars |-> validate_config(OPENAI_API_KEY, CRUNCHBASE_API_KEY)]
    /\ schema' = TRUE
    /\ response' = [NoResponse EXCEPT !.endpoint = "stats", !.status = 200,
                                      !.instance = automation,
                                      !.runner = automation,
                                      !.stats = stats]
    /\ session' = 0
    /\ closed' = IF session # 0 THEN closed \cup {session} ELSE closed
    /\ UNCHANGED <<config, lifespan, pc, taskResult, cancelRequested, timerFired, cycles,
                   running, stats, loopVars, pending, exit, cause, calls, automation>>
    /\ UNCHANGED <<database, created_at, ops, page>>

\* get_stats, lines 216-220: a new LeadAutomation is constructed (which
\* creates the tables) and the counters of that instance are returned.
get_stats_returns ==
    /\ lifespan = "serving"
    /\ validate_config(OPENAI_API_KEY, CRUNCHBASE_API_KEY) = <<>>
    /\ validation' = [called |-> TRUE,
                      missing_vars |-> validate_config(OPENAI_API_KEY, CRUNCHBASE_API_KEY)]
    /\ schema' = TRUE
    /\ response' = [NoResponse EXCEPT !.endpoint = "stats", !.status = 200,
                                      !.instance = HandlerInstance,
                                      !.runner = automation,
                                      !.stats = NewStats]
    /\ UNCHANGED <<config, schedulerVars, database, created_at, ops, page>>

\* get_stats, lines 221-222: LeadAutomation() raises; the response is the
\* HTTPException with status 500.
get_stats_error ==
    /\ lifespan = "serving"
    /\ validate_config(OPENAI_API_KEY, CRUNCHBASE_API_KEY) # <<>>
    /\ validation' = [called |-> TRUE,
                      missing_vars |-> validate_config(OPENAI_API_KEY, CRUNCHBASE_API_KEY)]
    /\ response' = [NoResponse EXCEPT !.endpoint = "stats", !.status = 500]
    /\ UNCHANGED <<config, schedulerVars, database, schema, created_at, ops, page>>

\* The records get_leads returns for the sorted rows q: lines 229-237.
get_leads(q, limit, offset) == LeftJoin(LimitOffset(q, limit, offset))

\* get_leads, lines 225-237: the page of the joined rows is returned; the
\* handler writes nothing.
get_leads_returns ==
    /\ lifespan = "serving"
    /\ schema
    /\ response' = [NoResponse EXCEPT !.endpoint = "leads", !.status = 200]
    /\ UNCHANGED <<config, schedulerVars, database, validation, schema, created_at, ops, page>>

\* get_leads, lines 238-239: the query raises (leads.db has no table leads
\* before the first setup_database); the response has status 500.
get_leads_error ==
    /\ lifespan = "serving"
    /\ ~schema
    /\ response' = [NoResponse EXCEPT !.endpoint = "leads", !.status = 500]
    /\ UNCHANGED <<config, schedulerVars, database, validation, schema, created_at, ops, page>>

\* health_check, lines 242-248.
health_check ==
    /\ lifespan = "serving"
    /\ response' = [NoResponse EXCEPT !.endpoint = "health", !.status = 200]
    /\ UNCHANGED <<config, schedulerVars, database, validation, schema, created_at, ops, page>>

Next ==
    \/ cycle_config_error
    \/ cycle_session_error
    \/ cycle_begins
    \/ scrape_crunchbase_returns
    \/ enrich_lead_returns
    \/ enrich_lead_raises
    \/ store_lead_returns
    \/ store_lead_raises
    \/ close_session_returns
    \/ cancel_in_call
    \/ cancel_in_close_session
    \/ sleep_timer
    \/ cancel_in_sleep
    \/ cancel_before_start
    \/ lifespan_shutdown
    \/ lifespan_shutdown_completes
    \/ lifespan_shutdown_raises
    \/ get_stats_returns
    \/ get_stats_error
    \/ get_leads_returns
    \/ get_leads_error
    \/ health_check

Spec == Init /\ [][Next]_vars

TypeOK ==
    /\ lifespan \in {"serving", "awaiting", "complete", "raised"}
    /\ pc \in {"created", "scrape", "enrich", "store", "close", "sleep", "done"}
    /\ taskResult \in {"pending", "cancelled", "error"}
    /\ cycles \in 0..MaxCycles
    /\ running \in 0..1
    /\ session \in Nat
    /\ automation.by \in {"none", "run_automation_cycle"}
    /\ schema \in BOOLEAN
    /\ DOMAIN created_at = leadRows
    /\ enrichmentRows \subseteq leadRows
    /\ response.status \in {0, 200, 500}
    /\ pending \in {"none", "error", "cancelled"}
    /\ exit \in {"none", "normal", "error", "cancelled"}

----------------------------------------------------------------------------
\* The session of one LeadAutomation instance under any sequence of
\* init_session and close_session calls.

\* LeadAutomation.close_session on <<session, closed sessions>>: an open
\* session is closed and the attribute set to None; with no session nothing
\* is done.
close_session(s, c) == IF s # 0 THEN <<0, c \cup {s}>> ELSE <<s, c>>

\* The instance has been constructed (the configuration is valid); it has no
\* session yet.
SessionInit ==
    /\ Init
    /\ validate_config(OPENAI_API_KEY, CRUNCHBASE_API_KEY) = <<>>

\* await automation.init_session(); a ClientSession it constructs is one
\* that did not exist before.
init_session_called ==
    /\ Len(ops) < MaxOps
    /\ session' = init_session(session, Len(ops) + 1)
    /\ ops' = Append(ops, "init_session")
    /\ UNCHANGED <<config, lifespan, pc, taskResult, cancelRequested, timerFired, cycles,
                   running, closed, stats, loopVars, pending, exit, cause, calls,
                   automation>>
    /\ UNCHANGED <<database, validation, schema, created_at, response, page>>

\* await automation.close_session().
close_session_called ==
    /\ Len(ops) < MaxOps
    /\ session' = close_session(session, closed)[1]
    /\ closed' = close_session(session, closed)[2]
    /\ ops' = Append(ops, "close_session")
    /\ UNCHANGED <<config, lifespan, pc, taskResult, cancelRequested, timerFired, cycles,
                   running, stats, loopVars, pending, exit, cause, calls, automation>>
    /\ UNCHANGED <<database, validation, schema, created_at, response, page>>

SessionNext ==
    \/ init_session_called
    \/ close_session_called

SessionSpec == SessionInit /\ [][SessionNext]_vars

----------------------------------------------------------------------------
\* The query of get_leads over any content of leads.db.

\* leads.db as earlier cycles can have left it: any stored leads, each with
\* the time it was created at, some of them with an enrichment row.
ReadInit ==
    /\ OPENAI_API_KEY = "key"
    /\ CRUNCHBASE_API_KEY = "key"
    /\ lifespan = "serving"
    /\ pc = "created"
    /\ taskResult = "pending"
    /\ cancelRequested = FALSE
    /\ timerFired = FALSE
    /\ cycles = 0
    /\ running = 0
    /\ session = 0
    /\ closed = {}
    /\ stats = NewStats
    /\ category = 1
    /\ leads = <<>>
    /\ lead = 1
    /\ enriched_data = "unset"
    /\ pending = "none"
    /\ exit = "none"
    /\ cause = "none"
    /\ leadRows \in SUBSET LeadPool
    /\ enrichmentRows \in SUBSET leadRows
    /\ calls = NoCalls
    /\ automation = NoInstance
    /\ validation = [called |-> FALSE, missing_vars |-> <<>>]
    /\ schema = TRUE
    /\ created_at \in [leadRows -> 1..MaxCycles]
    /\ response = NoResponse
    /\ ops = <<>>
    /\ page = NoPage

\* get_leads, lines 225-237, with the query parameters and the page it
\* returns; ties of created_at are broken in any way.  One request is
\* followed for each content of the database.
get_leads_page ==
    /\ lifespan = "serving"
    /\ schema
    /\ ~page.read
    /\ \E limit \in PageValues, offset \in PageValues, q \in LeadOrders :
        page' = [limit |-> limit, offset |-> offset, order |-> q,
                 rows |-> get_leads(q, limit, offset), read |-> TRUE]
    /\ response' = [NoResponse EXCEPT !.endpoint = "leads", !.status = 200]
    /\ UNCHANGED <<config, schedulerVars, database, validation, schema, created_at, ops>>

ReadNext == get_leads_page

ReadSpec == ReadInit /\ [][ReadNext]_vars

----------------------------------------------------------------------------
\* The last invocation of run_automation_cycle has left, and its init_session
\* had succeeded.
CycleLeftAfterInit == exit # "none" /\ cause \notin {"config", "session"}

\* The leads for which store_lead was called in the current cycle.
StoredLeads == {c[1] : c \in calls.stored}

\* The EnrichmentResult rows added by the current cycle.
EnrichmentAdded == enrichmentRows \ calls.enrichmentAtStart

\* C1: whenever run_automation_cycle has left after init_session succeeded,
\* by any exit path, close_session has run to completion: the ClientSession
\* of the cycle is closed and automation.session is None.
C1_ReleasedOnEveryExit ==
    CycleLeftAfterInit => (session = 0 /\ cycles \in closed)

\* C2: a cycle in which the enrichment of a lead failed, and which was not
\* cancelled and met no persistence error, has still collected every
\* category, and has enriched and stored every other lead it collected.
C2_EnrichFailureDoesNotAbort ==
    (exit \in {"normal", "error"} /\ cause # "store" /\ calls.enrichFailed # {})
        => /\ calls.scraped = DOMAIN categories
           /\ \A l \in calls.returned \ calls.enrichFailed :
                l \in calls.enrichOk /\ l \in StoredLeads

\* C3: when a cycle has left without cancellation or persistence error,
\* store_lead was called for every lead the collector returned, and a lead
\* whose enrichment failed was stored with a null enrichment: it has a Lead
\* row and the cycle added no EnrichmentResult row for it.
C3_StoredWhateverEnrichment ==
    (exit \in {"normal", "error"} /\ cause # "store")
        => \A l \in calls.returned :
            /\ l \in StoredLeads
            /\ l \in calls.enrichFailed
                => /\ <<l, "null">> \in calls.stored
                   /\ l \in leadRows
                   /\ l \notin EnrichmentAdded

\* C4: the only errors that leave run_automation_cycle are the fatal startup
\* errors (missing configuration, session acquisition); an error of
\* collection, enrichment or persistence never does.
C4_OnlyStartupErrorsLeave ==
    exit = "error" => cause \in {"config", "session"}

\* C5: at the end of a cycle that ran through all categories, leads_generated
\* is larger than at the start of the cycle by exactly the number of leads
\* the collector returned, and at most that many EnrichmentResult rows
\* were added.
C5_GeneratedCountsCollected ==
    exit = "normal"
        => /\ stats.leads_generated
                = calls.statsAtStart.leads_generated + Cardinality(calls.returned)
           /\ Cardinality(EnrichmentAdded) <= Cardinality(calls.returned)

\* C6: at the end of a cycle leads_enriched has grown by the number of
\* successful enrichments and errors by the number of failed ones; and
\* when software returned two leads, one enriched and one failed, and no
\* other category returned a lead, the counters are 2, 1, 1 with two leads
\* and one enrichment stored.
C6_CountersMatchOutcomes ==
    exit \in {"normal", "error"}
        => /\ stats.leads_enriched
                = calls.statsAtStart.leads_enriched + Cardinality(calls.enrichOk)
           /\ stats.errors
                = calls.statsAtStart.errors + Cardinality(calls.enrichFailed)
           /\ (/\ calls.returned = {1, 2}
               /\ Cardinality(calls.enrichOk) = 1
               /\ Cardinality(calls.enrichFailed) = 1)
                => /\ stats = [leads_generated |-> 2, leads_enriched |-> 1, errors |-> 1]
                   /\ Cardinality(StoredLeads) = 2
                   /\ Cardinality(EnrichmentAdded) = 1

\* C7: at most one invocation of run_automation_cycle is in progress, and a
\* cycle starts only when none is in progress: as the first step of the
\* task, or after the previous cycle returned and the sleep has elapsed.
C7_CyclesSerialized ==
    /\ [](running <= 1)
    /\ [][cycles' # cycles
            => /\ running = 0
               /\ \/ pc = "created" /\ cycles = 0
                  \/ pc = "sleep" /\ timerFired /\ exit = "normal"]_vars

\* A second cycle is in progress.
C7_Witness == cycles = 2 /\ running = 1 /\ pc = "enrich"

\* C8: while a cancellation is requested during the sleep, the session of
\* the last cycle is None and closed, the only step of the task is to end
\* (it does not wait for the timer and starts no cycle), and a task that
\* has ended starts no cycle.
C8_CancelDuringSleep ==
    /\ []((pc = "sleep" /\ cancelRequested) => (session = 0 /\ cycles \in closed))
    /\ [][(pc = "sleep" /\ cancelRequested)
            => /\ cycles' = cycles
               /\ session' = 0
               /\ pc' = "done" \/ (pc' = "sleep" /\ cancelRequested')]_vars
    /\ [][pc = "done" => (pc' = "done" /\ cycles' = cycles)]_vars

\* The task was cancelled in the sleep that followed a completed cycle,
\* before the timer expired.
C8_Witness ==
    /\ taskResult = "cancelled"
    /\ exit = "normal"
    /\ ~timerFired
    /\ cycles = 1
    /\ session = 0

\* C9: a cancellation never takes effect while a collection, enrichment or
\* persistence call is in progress.
C9_CancelOnlyAtItemBoundary ==
    [][(pending # "cancelled" /\ pending' = "cancelled")
            => pc \notin {"scrape", "enrich", "store"}]_vars

\* C10: when the lifespan shutdown block has finished, the session is
\* released: the reference is None and the ClientSession of the last cycle
\* that opened one is closed.
C10_ReleasedBeforeShutdownEnds ==
    lifespan \in {"complete", "raised"}
        => /\ session = 0
           /\ (cycles > 0 /\ cause \notin {"config", "session"}) => cycles \in closed

\* The handler steps of the monitoring endpoints.
MonitoringStep ==
    \/ get_stats_returns
    \/ get_stats_error
    \/ get_leads_returns
    \/ get_leads_error
    \/ health_check

\* C11: the counters are those of one object for the life of the process
\* (once a cycle has counters, every later step counts in the same object)
\* and no counter ever decreases.
C11_CountersProcessWide ==
    [][/\ stats'.leads_generated >= stats.leads_generated
       /\ stats'.leads_enriched >= stats.leads_enriched
       /\ stats'.errors >= stats.errors
       /\ automation.by # "none" => automation' = automation]_vars

\* C12: the counters get_stats returns are those of the instance of the
\* cycle, not the counters of an instance of its own.
C12_StatsOfRunner ==
    (response.endpoint = "stats" /\ response.status = 200 /\ response.runner.by # "none")
        => /\ response.instance = response.runner
           /\ response.stats = stats

\* C13: a monitoring handler changes no counter, does not open or close the
\* session of the cycle, and starts no cycle.
C13_MonitoringReadsOnly ==
    [][MonitoringStep
            => UNCHANGED <<stats, automation, session, closed, cycles, running, pc,
                           taskResult, calls>>]_vars

\* get_stats was answered while the cycle that is in progress had its
\* session open.
C13_Witness ==
    /\ response.endpoint = "stats"
    /\ response.status = 200
    /\ running = 1
    /\ response.runner = CycleInstance(cycles)
    /\ session = cycles

\* C14: every cycle that ends without a cancellation, also one in which a
\* step failed, is followed by the sleep between cycles.
C14_CycleFollowedBySleep ==
    [][(running = 1 /\ running' = 0 /\ exit' # "cancelled") => pc' = "sleep"]_vars

\* C15: validate_config raises exactly when a key is None or empty (no
\* instance is constructed then, and get_stats answers 500), and the error
\* names every missing variable and no other.
C15_ConfigValidation ==
    LET unset(v) == v \in {"None", ""}
        names == {validation.missing_vars[i] : i \in DOMAIN validation.missing_vars}
    IN /\ validation.called
            => /\ (validation.missing_vars # <<>>)
                    <=> (unset(OPENAI_API_KEY) \/ unset(CRUNCHBASE_API_KEY))
               /\ "OPENAI_API_KEY" \in names <=> unset(OPENAI_API_KEY)
               /\ "CRUNCHBASE_API_KEY" \in names <=> unset(CRUNCHBASE_API_KEY)
               /\ names \subseteq {"OPENAI_API_KEY", "CRUNCHBASE_API_KEY"}
       /\ (cause = "config" \/ (response.endpoint = "stats" /\ response.status = 500))
            => (unset(OPENAI_API_KEY) \/ unset(CRUNCHBASE_API_KEY))
       /\ (response.endpoint = "stats" /\ response.status = 200)
            => ~(unset(OPENAI_API_KEY) \/ unset(CRUNCHBASE_API_KEY))
       /\ automation.by # "none"
            => ~(unset(OPENAI_API_KEY) \/ unset(CRUNCHBASE_API_KEY))

\* Both keys are missing and the error names both.
C15_Witness ==
    /\ validation.called
    /\ validation.missing_vars = <<"OPENAI_API_KEY", "CRUNCHBASE_API_KEY">>
    /\ cause = "config"

\* C16: init_session with a session open keeps that session and closes
\* nothing; with none it opens a session that did not exist before;
\* close_session with no session open does nothing.
C16_SessionIdempotent ==
    [][ops' # ops
        => LET op == ops'[Len(ops')]
           IN /\ (op = "init_session" /\ session # 0)
                    => (session' = session /\ closed' = closed)
              /\ (op = "init_session" /\ session = 0)
                    => (session' # 0 /\ session' \notin closed /\ closed' = closed)
              /\ (op = "close_session" /\ session = 0)
                    => (session' = 0 /\ closed' = closed)
              /\ (op = "close_session" /\ session # 0)
                    => (session' = 0 /\ closed' = closed \cup {session})]_vars

\* init_session was called twice in a row, then close_session twice in a
\* row, and a session was opened again.
C16_Witness ==
    /\ ops = <<"init_session", "init_session", "close_session", "close_session",
               "init_session">>
    /\ session = 5
    /\ closed = {1}

C18_SessionFailureIsFatal ==
    cause = "session"
        => /\ exit = "error"
           /\ pc = "done"
           /\ taskResult = "error"
           /\ running = 0
           /\ session = 0
           /\ calls.scraped = {} /\ calls.returned = {}
           /\ calls.enrichOk = {} /\ calls.enrichFailed = {} /\ calls.stored = {}
           /\ enrichmentRows = calls.enrichmentAtStart

\* init_session of the first cycle raised.
C18_Witness == cause = "session" /\ cycles = 1 /\ automation = CycleInstance(1)

\* C19: the shutdown block of lifespan never ends by raising.
C19_ShutdownNeverRaises == lifespan # "raised"

\* The ids of the rows of a page.
PageIds(rows) == {rows[i].id : i \in DOMAIN rows}

\* What a page is said to be: at most limit rows, created_at descending,
\* every lead with or without enrichment (a page that is large enough has
\* all stored leads, null where a lead has no enrichment), and the page at
\* offset = limit shares no lead with the page at offset 0.
PageAsClaimed ==
    /\ Len(page.rows) <= page.limit
    /\ \A i, j \in DOMAIN page.rows :
            i < j => page.rows[i].created_at >= page.rows[j].created_at
    /\ (page.offset <= 0 /\ page.limit >= Cardinality(leadRows))
            => PageIds(page.rows) = leadRows
    /\ \A i \in DOMAIN page.rows :
            page.rows[i].seo_score = "null" <=> page.rows[i].id \notin enrichmentRows
    /\ page.offset = page.limit
            => PageIds(page.rows) \cap PageIds(get_leads(page.order, page.limit, 0)) = {}

\* C20: every page get_leads returns, for every limit and offset it
\* accepts, has at most limit rows in descending order of created_at, has
\* the leads without enrichment too, and the page at offset = limit shares
\* no lead with the page at offset 0.
C20_EveryPage == page.read => PageAsClaimed

\* The pages read with a limit that is not negative are as claimed.
PagesWithLimit == (page.read /\ page.limit >= 0) => PageAsClaimed

====
